---- MODULE Spec2Model ----
(***************************************************************************)
(* Model of the four Box transfer scripts:                                 *)
(*   box_uploader_jwt.py    ("up_jwt")   zip uploader with upload modes    *)
(*   box_uploader_token.py  ("up_tok")   recursive directory uploader      *)
(*   box_downloader_jwt.py  ("down_jwt") suffix-filtered downloader        *)
(*   box_downloader_token.py("down_tok") suffix-filtered downloader        *)
(* The Box SDK client is the environment: every remote call either         *)
(* succeeds or raises, chosen nondeterministically, and is appended to     *)
(* the call log `calls` when it is issued.  Strings the code inspects      *)
(* (URLs, file names) are sequences of one-character strings.              *)
(* Local files that the scripts enumerate are regular, readable files.     *)
(***************************************************************************)
EXTENDS Integers, Sequences, FiniteSets, TLC

(* ------------------------------ bounds --------------------------------- *)
MaxRemote == 2
MaxLocal == 2
MaxItems == 2
MaxEntries == 3

(* -------------------------- program constants -------------------------- *)
ListLimit == 1000

(* ------------------------------ strings -------------------------------- *)
Digits == {"0", "1", "2", "3", "4", "5", "6", "7", "8", "9"}

\* str.lower() on one character, for the letters the model's names use
LowerChar(c) ==
    CASE c = "A" -> "a"
      [] c = "Z" -> "z"
      [] c = "I" -> "i"
      [] c = "P" -> "p"
      [] c = "S" -> "s"
      [] c = "X" -> "x"
      [] OTHER -> c

lower(s) == [i \in 1..Len(s) |-> LowerChar(s[i])]

endswith(s, suf) ==
    /\ Len(suf) <= Len(s)
    /\ SubSeq(s, Len(s) - Len(suf) + 1, Len(s)) = suf

DotZip == <<".", "z", "i", "p">>
DotIsx == <<".", "i", "s", "x">>
extensions == {DotZip, DotIsx}

AZip == <<"a", ".", "z", "i", "p">>
BZip == <<"b", ".", "z", "i", "p">>
UpperZip == <<"A", ".", "Z", "I", "P">>
CIsx == <<"c", ".", "i", "s", "x">>
DTxt == <<"d", ".", "t", "x", "t">>
Sub == <<"s", "u", "b">>

(* ------------------------- folder-id extraction ------------------------ *)
FolderPattern == <<"/", "f", "o", "l", "d", "e", "r", "/">>

MatchAt(u, i) ==
    /\ i + Len(FolderPattern) <= Len(u)
    /\ SubSeq(u, i, i + Len(FolderPattern) - 1) = FolderPattern
    /\ u[i + Len(FolderPattern)] \in Digits

DigitRun(u, s) ==
    LET e == CHOOSE e \in s..Len(u) :
                 /\ \A k \in s..e : u[k] \in Digits
                 /\ (e = Len(u) \/ u[e + 1] \notin Digits)
    IN  SubSeq(u, s, e)

\* re.search(r"/folder/(\d+)", url): group 1 of the leftmost match, or
\* NoMatch (the empty sequence, which \d+ can never capture)
NoMatch == <<>>

\* an extraction whose pattern is only (\d+): the first run of digits
first_digits(u) ==
    IF \E i \in 1..Len(u) : u[i] \in Digits
    THEN LET i == CHOOSE i \in 1..Len(u) :
                      u[i] \in Digits /\ \A j \in 1..(i - 1) : u[j] \notin Digits
         IN  DigitRun(u, i)
    ELSE NoMatch

_extract_folder_id(u) ==
    IF \E i \in 1..Len(u) : MatchAt(u, i)
    THEN LET i == CHOOSE i \in 1..Len(u) :
                      MatchAt(u, i) /\ \A j \in 1..(i - 1) : ~MatchAt(u, j)
         IN  DigitRun(u, i + Len(FolderPattern))
    ELSE NoMatch

UrlGood == <<"b", "/", "f", "o", "l", "d", "e", "r", "/", "1", "2">>
UrlNoDigits == <<"b", "/", "f", "o", "l", "d", "e", "r", "/", "x">>
UrlFile == <<"b", "/", "f", "i", "l", "e", "/", "1", "2">>
UrlQuery == <<"b", "/", "f", "o", "l", "d", "e", "r", "/", "1", "2", "?", "v">>
UrlUpper == <<"b", "/", "F", "o", "l", "d", "e", "r", "/", "1", "2">>
Urls == {UrlGood, UrlQuery, UrlNoDigits, UrlFile, UrlUpper}

TargetId == <<"1", "2">>

(* --------------------- configuration values ---------------------------- *)
\* os.getenv(): unset (None) or a string; `not v` holds for None and ""
Unset == [set |-> FALSE, val |-> <<>>]
Val(s) == [set |-> TRUE, val |-> s]

\* a validation that tests `is None` and so lets empty strings through
IsNone(v) == ~v.set

Falsy(v) == ~v.set \/ v.val = <<>>

Modes == {"upload", "overwrite", "update"}

(* ------------------------------ remote --------------------------------- *)
\* ids are strings of digits; ids of listed and created items start with 9
DigitSeq == <<"0", "1", "2", "3", "4", "5", "6", "7", "8", "9">>
IdOf(n) == <<"9", DigitSeq[((n \div 10) % 10) + 1], DigitSeq[(n % 10) + 1]>>

Item(n, name, type, parent) ==
    [id |-> IdOf(n), name |-> name, type |-> type, parent |-> parent, version |-> 1]

RECURSIVE Children(_, _)
Children(r, parent) ==
    IF r = <<>> THEN <<>>
    ELSE IF Head(r).parent = parent
         THEN <<Head(r)>> \o Children(Tail(r), parent)
         ELSE Children(Tail(r), parent)

\* a listing that asks for the root folder "0" instead of the given folder
get_root_items(r, folder) == Children(r, <<"0">>)

\* get_folder_items(folder, limit=1000).entries: one page, no continuation
get_folder_items(r, folder) ==
    LET all == Children(r, folder)
    IN  SubSeq(all, 1, IF Len(all) < ListLimit THEN Len(all) ELSE ListLimit)

\* initial contents of the target folder: up to n items with distinct names
RemoteFolders(names, n) ==
    LET shapes == UNION {[1..k -> names \X {"file", "folder"}] : k \in 0..n}
        ok(s) == \A i, j \in DOMAIN s : i # j => s[i][1] # s[j][1]
    IN  {[i \in DOMAIN s |-> Item(i, s[i][1], s[i][2], TargetId)] :
            s \in {t \in shapes : ok(t)}}

RemoveId(r, id) == SelectSeq(r, LAMBDA it : it.id # id)

BumpVersion(r, id) ==
    [i \in DOMAIN r |->
        IF r[i].id = id THEN [r[i] EXCEPT !.version = @ + 1] ELSE r[i]]

Call(op, target, name, ok) ==
    [op |-> op, target |-> target, name |-> name, ok |-> ok]

(* ------------------------------ local ---------------------------------- *)
\* the local path: absent, a regular file `name`, or a directory whose
\* entries are the relative paths `nodes` (those in `dirs` are
\* directories, those in `others` neither file nor directory)
NoLocal == [kind |-> "absent", name |-> <<>>, nodes |-> {}, dirs |-> {}, others |-> {}]
LocalFile(n) == [kind |-> "file", name |-> n, nodes |-> {}, dirs |-> {}, others |-> {}]
LocalDir(nodes, dirs, others) ==
    [kind |-> "dir", name |-> <<>>, nodes |-> nodes, dirs |-> dirs, others |-> others]

\* all orders in which a directory enumeration may yield the set S
Perms(S) ==
    {s \in [1..Cardinality(S) -> S] : \A i, j \in DOMAIN s : i # j => s[i] # s[j]}

VARIABLES
    script,            \* which of the four programs runs
    pc,                \* control position
    cfg,               \* configuration: [cred, url, path] (env vars or args)
    mode,              \* up_jwt: --mode
    local,             \* the local path
    remote,            \* the Box items, in backend order
    remote0,           \* the Box items when the run started (ghost)
    nextId,            \* number of the next id the backend hands out
    folder_id,         \* self.folder_id
    calls,             \* log of the remote calls issued so far
    exitCode,          \* process exit status (-1 while running)
    zips,              \* up_jwt: the files upload_all iterates
    idx,               \* index of the current item of the loop
    exists,            \* up_jwt upload_zip: exists
    file_id,           \* up_jwt upload_zip: file_id
    jobs,              \* up_jwt: one record per upload_zip invocation (ghost)
    items,             \* downloaders: result of list_folder_items
    downloaded_count,  \* downloaders: downloaded_count
    failed,            \* downloaders: number of failed transfers (ghost)
    printed,           \* downloaders: count printed in the summary (-1: none)
    stack,             \* up_tok: frames of the upload_directory recursion
    uploads,           \* up_tok: one record per file/dir entry handled (ghost)
    io                 \* the file-handle and network events so far, in order

vars == <<script, pc, cfg, mode, local, remote, remote0, nextId, folder_id, calls,
          exitCode, zips, idx, exists, file_id, jobs, items,
          downloaded_count, failed, printed, stack, uploads, io>>

jwtVars == <<zips, idx, exists, file_id, jobs>>
dlVars == <<items, downloaded_count, failed, printed>>
tokVars == <<stack, uploads>>

\* what every script starts with
Blank ==
    /\ pc = "main"
    /\ nextId = MaxRemote + MaxItems + 1
    /\ folder_id = NoMatch
    /\ calls = <<>>
    /\ exitCode = -1
    /\ zips = <<>>
    /\ idx = 0
    /\ exists = FALSE
    /\ file_id = NoMatch
    /\ jobs = <<>>
    /\ items = <<>>
    /\ downloaded_count = 0
    /\ failed = 0
    /\ printed = -1
    /\ stack = <<>>
    /\ uploads = <<>>
    /\ io = <<>>

Exit(code) ==
    /\ pc' = "exit"
    /\ exitCode' = code

\* one blocking SDK call: the request is sent and the script waits until
\* the response arrives or the call raises
request == <<"send", "recv">>

\* a handle that is closed only when the block ends normally
open_close(body, raised) ==
    <<"open">> \o body \o (IF raised THEN <<>> ELSE <<"close">>)

\* `with open(...) as f: body`: the handle is closed when the block is
\* left, normally or by an exception
with_open(body, raised) == <<"open">> \o body \o <<"close">>

(***************************************************************************)
(* box_uploader_jwt.py                                                     *)
(***************************************************************************)
JwtLocalNames == {AZip, BZip, DTxt}
JwtRemoteNames == {AZip, BZip}

JwtLocals ==
    {NoLocal} \cup {LocalFile(n) : n \in JwtLocalNames \cup {UpperZip}}
    \cup {LocalDir({<<n>> : n \in S}, {}, {}) :
            S \in {T \in SUBSET JwtLocalNames : Cardinality(T) <= MaxLocal}}

InitUpJwt ==
    /\ script = "up_jwt"
    /\ cfg \in [cred : {Val(<<"c">>)}, url : {Val(u) : u \in Urls}, path : {Val(<<"d">>)}]
    /\ mode \in Modes
    /\ local \in JwtLocals
    /\ remote \in RemoteFolders(JwtRemoteNames, MaxRemote)
    /\ remote0 = remote
    /\ Blank

\* main + BoxUploader.__init__: any exception prints and exits 1
jwt_main ==
    /\ script = "up_jwt"
    /\ pc = "main"
    /\ \E config \in {"missing", "malformed", "ok"} :
         LET fid == _extract_folder_id(cfg.url.val)
         IN  IF \/ config = "missing"
                \/ local.kind = "absent"
                \/ fid = NoMatch
                \/ config = "malformed"
             THEN /\ Exit(1)
                  /\ io' = IF config = "malformed" /\ local.kind # "absent" /\ fid # NoMatch
                           THEN io \o with_open(<<>>, TRUE)
                           ELSE io
                  /\ UNCHANGED folder_id
             ELSE /\ pc' = "upload_all"
                  /\ folder_id' = fid
                  /\ io' = io \o with_open(<<>>, FALSE)
                  /\ UNCHANGED exitCode
    /\ UNCHANGED <<script, cfg, mode, local, remote0, remote, nextId, calls>>
    /\ UNCHANGED <<jwtVars, dlVars, tokVars>>

\* a test that forgets the suffix
is_any_file == local.kind = "file"

is_zip_file == local.kind = "file" /\ endswith(local.name, DotZip)
is_directory == local.kind = "dir"

\* Path(local_path).glob("*.zip"): the immediate children matching *.zip
glob_zip == {p[1] : p \in {q \in local.nodes : Len(q) = 1 /\ endswith(q[1], DotZip)}}

\* upload_all up to the first upload_zip call
jwt_upload_all ==
    /\ script = "up_jwt"
    /\ pc = "upload_all"
    /\ IF is_zip_file
       THEN /\ zips' = <<local.name>>
            /\ idx' = 1
            /\ pc' = "find_file"
            /\ UNCHANGED exitCode
       ELSE IF is_directory /\ glob_zip # {}
            THEN /\ zips' \in Perms(glob_zip)
                 /\ idx' = 1
                 /\ pc' = "find_file"
                 /\ UNCHANGED exitCode
            ELSE /\ Exit(0)
                 /\ UNCHANGED <<zips, idx>>
    /\ UNCHANGED <<script, cfg, mode, local, remote0, remote, nextId, folder_id, calls>>
    /\ UNCHANGED <<exists, file_id, jobs, dlVars, tokVars>>
    /\ UNCHANGED io

fname == zips[idx]

\* a find_file loop that forgets the type test
FirstAnyType(entries, n) ==
    LET hits == {i \in DOMAIN entries : entries[i].name = n}
    IN  IF hits = {} THEN 0 ELSE CHOOSE i \in hits : \A j \in hits : i <= j

\* the first listed entry that is a file named n, as find_file's loop finds it
FirstFile(entries, n) ==
    LET hits == {i \in DOMAIN entries :
                    entries[i].type = "file" /\ entries[i].name = n}
    IN  IF hits = {} THEN 0 ELSE CHOOSE i \in hits : \A j \in hits : i <= j

\* whether the folder really holds a file named n, and which (ghost)
FileNamed(r, folder, n) ==
    LET all == Children(r, folder)
        hits == {i \in DOMAIN all : all[i].type = "file" /\ all[i].name = n}
    IN  IF hits = {} THEN NoMatch ELSE all[CHOOSE i \in hits : TRUE].id

\* a find_file whose except clause logs and re-raises, as delete_box_file's
find_file_reraises ==
    /\ script = "up_jwt"
    /\ pc = "find_file"
    /\ \E ok \in BOOLEAN :
         LET entries == get_folder_items(remote, folder_id)
             hit == IF ok THEN FirstFile(entries, fname) ELSE 0
             truth == FileNamed(remote, folder_id, fname)
         IN  /\ calls' = Append(calls, Call("list", folder_id, fname, ok))
             /\ exists' = (hit # 0)
             /\ file_id' = IF hit # 0 THEN entries[hit].id ELSE NoMatch
             /\ jobs' = Append(jobs,
                    [name |-> fname,
                     had |-> truth # NoMatch,
                     hadId |-> truth,
                     found |-> hit # 0,
                     from |-> Len(calls) + 1,
                     status |-> IF ok THEN "running" ELSE "raised"])
             /\ IF ok
                THEN pc' = "upload_zip" /\ UNCHANGED exitCode
                ELSE Exit(1)
    /\ io' = io \o request
    /\ UNCHANGED <<script, cfg, mode, local, remote0, remote, nextId, folder_id>>
    /\ UNCHANGED <<zips, idx, dlVars, tokVars>>

\* find_file, called first thing by upload_zip
find_file ==
    /\ script = "up_jwt"
    /\ pc = "find_file"
    /\ \E ok \in BOOLEAN :
         LET entries == get_folder_items(remote, folder_id)
             hit == IF ok THEN FirstFile(entries, fname) ELSE 0
             truth == FileNamed(remote, folder_id, fname)
         IN  /\ calls' = Append(calls, Call("list", folder_id, fname, ok))
             /\ exists' = (hit # 0)
             /\ file_id' = IF hit # 0 THEN entries[hit].id ELSE NoMatch
             /\ jobs' = Append(jobs,
                    [name |-> fname,
                     had |-> truth # NoMatch,
                     hadId |-> truth,
                     found |-> hit # 0,
                     from |-> Len(calls) + 1,
                     status |-> "running"])
    /\ io' = io \o request
    /\ pc' = "upload_zip"
    /\ UNCHANGED <<script, cfg, mode, local, remote0, remote, nextId, folder_id, exitCode>>
    /\ UNCHANGED <<zips, idx, dlVars, tokVars>>

\* upload_zip returns: upload_all goes on to the next file or finishes
Return(status) ==
    /\ jobs' = [jobs EXCEPT ![Len(jobs)].status = status]
    /\ IF idx < Len(zips)
       THEN /\ idx' = idx + 1
            /\ pc' = "find_file"
            /\ UNCHANGED exitCode
       ELSE /\ Exit(0)
            /\ UNCHANGED idx

\* an exception leaves upload_zip and upload_all; main prints it, exits 1
Raise ==
    /\ jobs' = [jobs EXCEPT ![Len(jobs)].status = "raised"]
    /\ Exit(1)
    /\ UNCHANGED idx

\* upload_zip, OVERWRITE branch: delete the existing file, fall through
upload_zip_overwrite ==
    /\ script = "up_jwt"
    /\ pc = "upload_zip"
    /\ mode = "overwrite" /\ exists
    /\ \E ok \in BOOLEAN :
         /\ calls' = Append(calls, Call("delete", file_id, fname, ok))
         /\ io' = io \o request
         /\ IF ok
            THEN /\ remote' = RemoveId(remote, file_id)
                 /\ exists' = FALSE
                 /\ UNCHANGED <<pc, exitCode, idx, jobs>>
            ELSE /\ Raise
                 /\ UNCHANGED <<remote, exists>>
    /\ UNCHANGED <<script, cfg, mode, local, remote0, nextId, folder_id>>
    /\ UNCHANGED <<zips, file_id, dlVars, tokVars>>

\* an UPDATE branch whose except clause forgets to return
upload_zip_update_no_return ==
    /\ script = "up_jwt"
    /\ pc = "upload_zip"
    /\ mode = "update" /\ exists
    /\ \E ok \in BOOLEAN :
         /\ calls' = Append(calls, Call("version", file_id, fname, ok))
         /\ io' = io \o with_open(request, ~ok)
         /\ remote' = IF ok THEN BumpVersion(remote, file_id) ELSE remote
         /\ IF ok
            THEN /\ Return("returned")
                 /\ UNCHANGED exists
            ELSE /\ exists' = FALSE
                 /\ UNCHANGED <<pc, exitCode, idx, jobs>>
    /\ UNCHANGED <<script, cfg, mode, local, remote0, nextId, folder_id>>
    /\ UNCHANGED <<zips, file_id, dlVars, tokVars>>

\* upload_zip, UPDATE branch: new version of the existing file, return
upload_zip_update ==
    /\ script = "up_jwt"
    /\ pc = "upload_zip"
    /\ mode = "update" /\ exists
    /\ \E ok \in BOOLEAN :
         /\ calls' = Append(calls, Call("version", file_id, fname, ok))
         /\ io' = io \o with_open(request, ~ok)
         /\ remote' = IF ok THEN BumpVersion(remote, file_id) ELSE remote
    /\ Return("returned")
    /\ UNCHANGED <<script, cfg, mode, local, remote0, nextId, folder_id>>
    /\ UNCHANGED <<zips, exists, file_id, dlVars, tokVars>>

\* an UPLOAD branch that logs the skip but forgets to return
upload_zip_skip_no_return ==
    /\ script = "up_jwt"
    /\ pc = "upload_zip"
    /\ mode = "upload" /\ exists
    /\ exists' = FALSE
    /\ UNCHANGED <<script, cfg, mode, local, remote0, remote, nextId, folder_id, calls>>
    /\ UNCHANGED <<pc, exitCode, zips, idx, file_id, jobs, dlVars, tokVars>>
    /\ UNCHANGED io

\* upload_zip, UPLOAD branch: skip the existing file, return
upload_zip_skip ==
    /\ script = "up_jwt"
    /\ pc = "upload_zip"
    /\ mode = "upload" /\ exists
    /\ Return("returned")
    /\ UNCHANGED <<script, cfg, mode, local, remote0, remote, nextId, folder_id, calls>>
    /\ UNCHANGED <<zips, exists, file_id, dlVars, tokVars>>
    /\ UNCHANGED io

\* upload_zip, last block: upload as a new file into the target folder
upload_zip_new ==
    /\ script = "up_jwt"
    /\ pc = "upload_zip"
    /\ ~exists
    /\ \E ok \in BOOLEAN :
         /\ calls' = Append(calls, Call("create", folder_id, fname, ok))
         /\ io' = io \o with_open(request, ~ok)
         /\ IF ok
            THEN /\ remote' = Append(remote, Item(nextId, fname, "file", folder_id))
                 /\ nextId' = nextId + 1
            ELSE UNCHANGED <<remote, nextId>>
    /\ Return("returned")
    /\ UNCHANGED <<script, cfg, mode, local, remote0, folder_id>>
    /\ UNCHANGED <<zips, exists, file_id, dlVars, tokVars>>

NextUpJwt ==
    \/ jwt_main
    \/ jwt_upload_all
    \/ find_file
    \/ upload_zip_overwrite
    \/ upload_zip_update
    \/ upload_zip_skip
    \/ upload_zip_new

SpecUpJwt == InitUpJwt /\ [][NextUpJwt]_vars

(***************************************************************************)
(* main of the three environment-configured scripts                        *)
(***************************************************************************)
EnvScripts == {"down_jwt", "down_tok", "up_tok"}
Downloaders == {"down_jwt", "down_tok"}

EnvConfigs ==
    [cred : {Unset, Val(<<>>), Val(<<"c">>)},
     url : {Unset, Val(<<>>)} \cup {Val(u) : u \in Urls},
     path : {Unset, Val(<<>>), Val(<<"d">>)}]

\* main up to the try block: each required variable is tested with `not`
main ==
    /\ script \in EnvScripts
    /\ pc = "main"
    /\ IF Falsy(cfg.cred) \/ Falsy(cfg.url) \/ Falsy(cfg.path)
       THEN Exit(1)
       ELSE /\ pc' = "init"
            /\ UNCHANGED exitCode
    /\ UNCHANGED <<script, cfg, mode, local, remote0, remote, nextId, folder_id, calls>>
    /\ UNCHANGED <<jwtVars, dlVars, tokVars>>
    /\ UNCHANGED io

(***************************************************************************)
(* box_downloader_jwt.py and box_downloader_token.py                       *)
(***************************************************************************)
DlNames == {AZip, UpperZip, CIsx, DTxt}

InitDown ==
    /\ script \in Downloaders
    /\ cfg \in EnvConfigs
    /\ mode = "none"
    /\ local = NoLocal
    /\ remote \in RemoteFolders(DlNames, MaxItems)
    /\ remote0 = remote
    /\ Blank

\* BoxDownloader.__init__: makedirs, folder id, (JWT) config file; any
\* exception reaches main's except clause, which exits 1
downloader_init ==
    /\ script \in Downloaders
    /\ pc = "init"
    /\ \E mk \in BOOLEAN, config \in {"missing", "malformed", "ok"} :
         LET fid == _extract_folder_id(cfg.url.val)
         IN  IF ~mk
             THEN /\ Exit(1)
                  /\ UNCHANGED <<local, folder_id, io>>
             ELSE /\ local' = LocalDir({}, {}, {})
                  /\ IF fid = NoMatch \/ (script = "down_jwt" /\ config # "ok")
                     THEN /\ Exit(1)
                          /\ io' = IF fid # NoMatch /\ config = "malformed"
                                   THEN io \o with_open(<<>>, TRUE)
                                   ELSE io
                          /\ UNCHANGED folder_id
                     ELSE /\ pc' = "list_folder_items"
                          /\ folder_id' = fid
                          /\ io' = IF script = "down_jwt"
                                   THEN io \o with_open(<<>>, FALSE)
                                   ELSE io
                          /\ UNCHANGED exitCode
    /\ UNCHANGED <<script, cfg, mode, remote0, remote, nextId, calls>>
    /\ UNCHANGED <<jwtVars, dlVars, tokVars>>

\* download_files, first line: list_folder_items
list_folder_items ==
    /\ script \in Downloaders
    /\ pc = "list_folder_items"
    /\ \E ok \in BOOLEAN :
         /\ calls' = Append(calls, Call("list", folder_id, <<>>, ok))
         /\ io' = io \o request
         /\ IF ok
            THEN /\ items' = get_folder_items(remote, folder_id)
                 /\ idx' = 1
                 /\ pc' = "download_files"
                 /\ UNCHANGED exitCode
            ELSE /\ Exit(1)
                 /\ UNCHANGED <<items, idx>>
    /\ UNCHANGED <<script, cfg, mode, local, remote0, remote, nextId, folder_id>>
    /\ UNCHANGED <<zips, exists, file_id, jobs, downloaded_count, failed, printed, tokVars>>

\* a filter that forgets to lower-case the name
wanted_case_sensitive(item) ==
    /\ item.type = "file"
    /\ \E ext \in extensions : endswith(item.name, ext)

\* item.type == "file" and item.name.lower().endswith(extensions)
wanted(item) ==
    /\ item.type = "file"
    /\ \E ext \in extensions : endswith(lower(item.name), ext)

\* download_files, loop body for an item that passes the filter
download_item ==
    /\ script \in Downloaders
    /\ pc = "download_files"
    /\ idx <= Len(items)
    /\ wanted(items[idx])
    /\ \E outcome \in {"ok", "download_raises", "open_raises", "write_raises"} :
         /\ calls' = Append(calls, Call("download", items[idx].id, items[idx].name,
                                        outcome # "download_raises"))
         /\ io' = io \o request \o
                  (IF outcome \in {"ok", "write_raises"}
                   THEN with_open(<<>>, outcome = "write_raises")
                   ELSE <<>>)
         /\ local' = IF outcome \in {"ok", "write_raises"}
                     THEN [local EXCEPT !.nodes = @ \cup {<<items[idx].name>>}]
                     ELSE local
         /\ IF outcome = "ok"
            THEN /\ downloaded_count' = downloaded_count + 1
                 /\ UNCHANGED failed
            ELSE /\ failed' = failed + 1
                 /\ UNCHANGED downloaded_count
    /\ idx' = idx + 1
    /\ UNCHANGED <<script, pc, cfg, mode, remote0, remote, nextId, folder_id, exitCode>>
    /\ UNCHANGED <<zips, exists, file_id, jobs, items, printed, tokVars>>

\* download_files, loop body for an item the filter rejects
skip_item ==
    /\ script \in Downloaders
    /\ pc = "download_files"
    /\ idx <= Len(items)
    /\ ~wanted(items[idx])
    /\ idx' = idx + 1
    /\ UNCHANGED <<script, pc, cfg, mode, local, remote0, remote, nextId, folder_id>>
    /\ UNCHANGED <<calls, exitCode, zips, exists, file_id, jobs, dlVars, tokVars>>
    /\ UNCHANGED io

\* download_files, after the loop: the summary line; main returns
download_complete ==
    /\ script \in Downloaders
    /\ pc = "download_files"
    /\ idx > Len(items)
    /\ printed' = downloaded_count
    /\ Exit(0)
    /\ UNCHANGED <<script, cfg, mode, local, remote0, remote, nextId, folder_id, calls>>
    /\ UNCHANGED <<jwtVars, items, downloaded_count, failed, tokVars>>
    /\ UNCHANGED io

NextDown ==
    \/ main
    \/ downloader_init
    \/ list_folder_items
    \/ download_item
    \/ skip_item
    \/ download_complete

SpecDown == InitDown /\ [][NextDown]_vars

(***************************************************************************)
(* box_uploader_token.py                                                   *)
(***************************************************************************)
TokNames == {AZip, Sub}

Front(p) == SubSeq(p, 1, Len(p) - 1)
Last(p) == p[Len(p)]

\* the sets of at most n relative paths that are closed under parent
RECURSIVE Shapes(_)
Shapes(n) ==
    IF n = 0 THEN {{}}
    ELSE LET less == Shapes(n - 1)
         IN  less \cup
             UNION {{T \cup {Append(q, name)} :
                        q \in T \cup {<<>>}, name \in TokNames} : T \in less}

\* local directories of at most MaxEntries entries: an entry with
\* children is a directory, any other is a file, a directory or neither
TokTrees ==
    UNION {
        LET inner == {Front(p) : p \in {q \in T : Len(q) > 1}}
            leaves == T \ inner
        IN  {LocalDir(T, inner \cup D, O) :
                <<D, O>> \in {x \in (SUBSET leaves) \X (SUBSET leaves) :
                                x[1] \cap x[2] = {}}}
        : T \in Shapes(MaxEntries)}

TokLocals == {NoLocal, LocalFile(AZip)} \cup TokTrees

\* initial Box contents below the target folder: up to n items, each in
\* the target folder or (a folder) in a folder listed before it, names
\* distinct within a folder
RECURSIVE TokRemotes(_)
TokRemotes(n) ==
    IF n = 0 THEN {<<>>}
    ELSE LET less == TokRemotes(n - 1)
             parents(r) == {TargetId} \cup
                 {r[i].id : i \in {j \in DOMAIN r : r[j].type = "folder"}}
             free(r, par, name) ==
                 \A i \in DOMAIN r : ~(r[i].parent = par /\ r[i].name = name)
         IN  less \cup
             UNION {{Append(r, Item(Len(r) + 1, x[2], x[3], x[1])) :
                        x \in {y \in parents(r) \X TokNames \X {"file", "folder"} :
                                  /\ free(r, y[1], y[2])
                                  /\ y[1] # TargetId => y[3] = "folder"}}
                    : r \in {q \in less : Len(q) = n - 1}}

\* every configuration with the absent and the single-file local path,
\* and the configuration that sets all three variables, the URL a plain
\* folder URL, with every local path (main never looks at the local path,
\* the constructor only at whether it exists)
TokWorlds ==
    {w \in EnvConfigs \X TokLocals :
        \/ w[2] \in {NoLocal, LocalFile(AZip)}
        \/ w[1].cred.val # <<>> /\ w[1].url.val = UrlGood /\ w[1].path.val # <<>>}

InitUpTok ==
    /\ script = "up_tok"
    /\ \E w \in TokWorlds :
         /\ cfg = w[1]
         /\ local = w[2]
    /\ mode = "none"
    /\ remote \in TokRemotes(MaxRemote)
    /\ remote0 = remote
    /\ Blank

\* BoxUploader.__init__: local path exists, folder id; any exception
\* reaches main's except clause, which exits 1
uploader_init ==
    /\ script = "up_tok"
    /\ pc = "init"
    /\ LET fid == _extract_folder_id(cfg.url.val)
       IN  IF local.kind = "absent" \/ fid = NoMatch
           THEN /\ Exit(1)
                /\ UNCHANGED folder_id
           ELSE /\ pc' = "upload_all"
                /\ folder_id' = fid
                /\ UNCHANGED exitCode
    /\ UNCHANGED <<script, cfg, mode, local, remote0, remote, nextId, calls>>
    /\ UNCHANGED <<jwtVars, dlVars, tokVars>>
    /\ UNCHANGED io

\* os.scandir(path): the names of the entries directly inside `path`
scandir(path) == {p \in local.nodes : Front(p) = path}

Frame(path, parent_id) ==
    [path |-> path, parent_id |-> parent_id, todo |-> scandir(path)]

Top == stack[Len(stack)]

\* whether the folder really holds a folder named n, and which (ghost)
FolderNamed(r, folder, n) ==
    LET all == Children(r, folder)
        hits == {i \in DOMAIN all : all[i].type = "folder" /\ all[i].name = n}
    IN  IF hits = {} THEN NoMatch ELSE all[CHOOSE i \in hits : TRUE].id

\* ghost record of one loop iteration: the entry, the parent id it was
\* handled with, the id of the same-named remote folder there was (had),
\* the id _create_folder returned (resolved), the index of its first call
Handled(path, kind, ok, parent_id, had, resolved) ==
    [path |-> path, kind |-> kind, ok |-> ok, parent |-> parent_id,
     had |-> had, resolved |-> resolved, at |-> Len(calls) + 1]

\* upload_all: a single file is uploaded here; a directory starts the
\* upload_directory recursion on the target folder
tok_upload_all ==
    /\ script = "up_tok"
    /\ pc = "upload_all"
    /\ IF local.kind = "file"
       THEN \E ok \in BOOLEAN :
              /\ calls' = Append(calls, Call("create", folder_id, local.name, ok))
              /\ io' = io \o with_open(request, ~ok)
              /\ IF ok
                 THEN /\ remote' = Append(remote,
                                      Item(nextId, local.name, "file", folder_id))
                      /\ nextId' = nextId + 1
                 ELSE UNCHANGED <<remote, nextId>>
              /\ uploads' = Append(uploads, Handled(<<local.name>>, "file", ok, folder_id, NoMatch, NoMatch))
              /\ Exit(0)
              /\ UNCHANGED stack
       ELSE /\ stack' = <<Frame(<<>>, folder_id)>>
            /\ pc' = "upload_directory"
            /\ UNCHANGED <<remote, nextId, calls, exitCode, uploads, io>>
    /\ UNCHANGED <<script, cfg, mode, local, remote0, folder_id>>
    /\ UNCHANGED <<jwtVars, dlVars>>

\* upload_directory, loop body for an entry that is a file
upload_directory_file ==
    /\ script = "up_tok"
    /\ pc = "upload_directory"
    /\ \E e \in Top.todo :
         /\ e \notin local.dirs /\ e \notin local.others
         /\ \E ok \in BOOLEAN :
              /\ calls' = Append(calls, Call("create", Top.parent_id, Last(e), ok))
              /\ io' = io \o with_open(request, ~ok)
              /\ IF ok
                 THEN /\ remote' = Append(remote,
                                      Item(nextId, Last(e), "file", Top.parent_id))
                      /\ nextId' = nextId + 1
                 ELSE UNCHANGED <<remote, nextId>>
              /\ uploads' = Append(uploads, Handled(e, "file", ok, Top.parent_id, NoMatch, NoMatch))
         /\ stack' = [stack EXCEPT ![Len(stack)].todo = @ \ {e}]
    /\ UNCHANGED <<script, pc, cfg, mode, local, remote0, folder_id, exitCode>>
    /\ UNCHANGED <<jwtVars, dlVars>>

\* the first listed entry that is a folder named n, as _create_folder finds it
FirstFolder(entries, n) ==
    LET hits == {i \in DOMAIN entries :
                    entries[i].type = "folder" /\ entries[i].name = n}
    IN  IF hits = {} THEN 0 ELSE CHOOSE i \in hits : \A j \in hits : i <= j

\* a recursion that passes the parent's id instead of the subfolder's
recurse_into_parent(subfolder_id, parent_id) == parent_id

\* upload_directory line 123: the recursion's parent is the subfolder
recurse_into(subfolder_id, parent_id) == subfolder_id

\* upload_directory, loop body for an entry that is a directory:
\* _create_folder (list, then create unless found), then the recursive call;
\* an exception of either remote call leaves every upload_directory frame
\* and upload_all, and main exits 1
upload_directory_dir ==
    /\ script = "up_tok"
    /\ pc = "upload_directory"
    /\ \E e \in Top.todo :
         /\ e \in local.dirs
         /\ \E listed \in BOOLEAN, created \in BOOLEAN :
              LET entries == get_folder_items(remote, Top.parent_id)
                  hit == FirstFolder(entries, Last(e))
                  rest == [stack EXCEPT ![Len(stack)].todo = @ \ {e}]
                  had == FolderNamed(remote, Top.parent_id, Last(e))
              IN  IF ~listed
                  THEN /\ calls' = Append(calls,
                                      Call("list", Top.parent_id, Last(e), FALSE))
                       /\ io' = io \o request
                       /\ uploads' = Append(uploads,
                              Handled(e, "dir", FALSE, Top.parent_id, had, NoMatch))
                       /\ Exit(1)
                       /\ UNCHANGED <<remote, nextId, stack>>
                  ELSE IF hit # 0
                  THEN /\ calls' = Append(calls,
                                      Call("list", Top.parent_id, Last(e), TRUE))
                       /\ io' = io \o request
                       /\ uploads' = Append(uploads,
                              Handled(e, "dir", TRUE, Top.parent_id, had, entries[hit].id))
                       /\ stack' = Append(rest,
                              Frame(e, recurse_into(entries[hit].id, Top.parent_id)))
                       /\ UNCHANGED <<remote, nextId, pc, exitCode>>
                  ELSE /\ calls' = calls \o
                              <<Call("list", Top.parent_id, Last(e), TRUE),
                                Call("create_folder", Top.parent_id, Last(e), created)>>
                       /\ io' = io \o request \o request
                       /\ uploads' = Append(uploads,
                              Handled(e, "dir", created, Top.parent_id, had,
                                      IF created THEN IdOf(nextId) ELSE NoMatch))
                       /\ IF created
                          THEN /\ remote' = Append(remote,
                                      Item(nextId, Last(e), "folder", Top.parent_id))
                               /\ nextId' = nextId + 1
                               /\ stack' = Append(rest,
                                      Frame(e, recurse_into(IdOf(nextId), Top.parent_id)))
                               /\ UNCHANGED <<pc, exitCode>>
                          ELSE /\ Exit(1)
                               /\ UNCHANGED <<remote, nextId, stack>>
    /\ UNCHANGED <<script, cfg, mode, local, remote0, folder_id>>
    /\ UNCHANGED <<jwtVars, dlVars>>

\* upload_directory, an entry that is neither a file nor a directory
upload_directory_other ==
    /\ script = "up_tok"
    /\ pc = "upload_directory"
    /\ \E e \in Top.todo :
         /\ e \in local.others
         /\ uploads' = Append(uploads, Handled(e, "other", TRUE, Top.parent_id, NoMatch, NoMatch))
         /\ stack' = [stack EXCEPT ![Len(stack)].todo = @ \ {e}]
    /\ UNCHANGED <<script, pc, cfg, mode, local, remote0, remote, nextId, folder_id>>
    /\ UNCHANGED <<calls, exitCode, jwtVars, dlVars>>
    /\ UNCHANGED io

\* upload_directory returns when its loop is over; the outermost return
\* takes upload_all to "Upload complete."
upload_directory_return ==
    /\ script = "up_tok"
    /\ pc = "upload_directory"
    /\ Top.todo = {}
    /\ stack' = SubSeq(stack, 1, Len(stack) - 1)
    /\ IF Len(stack) = 1
       THEN Exit(0)
       ELSE UNCHANGED <<pc, exitCode>>
    /\ UNCHANGED <<script, cfg, mode, local, remote0, remote, nextId, folder_id>>
    /\ UNCHANGED <<calls, uploads, jwtVars, dlVars>>
    /\ UNCHANGED io

NextUpTok ==
    \/ main
    \/ uploader_init
    \/ tok_upload_all
    \/ upload_directory_file
    \/ upload_directory_dir
    \/ upload_directory_other
    \/ upload_directory_return

SpecUpTok == InitUpTok /\ [][NextUpTok]_vars

(***************************************************************************)
(* The scripts together                                                    *)
(***************************************************************************)
InitEnv == InitDown \/ InitUpTok

NextEnv ==
    \/ main
    \/ downloader_init
    \/ list_folder_items
    \/ download_item
    \/ skip_item
    \/ download_complete
    \/ uploader_init
    \/ tok_upload_all
    \/ upload_directory_file
    \/ upload_directory_dir
    \/ upload_directory_other
    \/ upload_directory_return

SpecEnv == InitEnv /\ [][NextEnv]_vars

Init == InitUpJwt \/ InitDown \/ InitUpTok

Next ==
    \/ jwt_main
    \/ jwt_upload_all
    \/ find_file
    \/ upload_zip_overwrite
    \/ upload_zip_update
    \/ upload_zip_skip
    \/ upload_zip_new
    \/ main
    \/ downloader_init
    \/ list_folder_items
    \/ download_item
    \/ skip_item
    \/ download_complete
    \/ uploader_init
    \/ tok_upload_all
    \/ upload_directory_file
    \/ upload_directory_dir
    \/ upload_directory_other
    \/ upload_directory_return

Spec == Init /\ [][Next]_vars

(***************************************************************************)
(* Claims about box_uploader_jwt.py                                        *)
(***************************************************************************)
\* the remote calls upload_zip number k issued after its existence check,
\* as <<operation, target id>> pairs in the order they were issued
JobOps(k) ==
    LET first == jobs[k].from + 1
        last == IF k < Len(jobs) THEN jobs[k + 1].from - 1 ELSE Len(calls)
    IN  [i \in 1..(last - first + 1) |->
            <<calls[first + i - 1].op, calls[first + i - 1].target>>]

Finished(k) == jobs[k].status # "running"

OpsIssued(ops) == {i \in DOMAIN calls : calls[i].op \in ops}

\* C1: in mode overwrite, for a local file whose name exists as a file in
\* the target folder (stated here for the files the existence check finds,
\* the case most favourable to the claim), upload_zip issues exactly one
\* delete call on the existing file's id followed by exactly one create
\* call, and no upload-new-version call.
C1_OverwriteDeleteThenCreate ==
    (script = "up_jwt" /\ mode = "overwrite") =>
        \A k \in DOMAIN jobs :
            (jobs[k].had /\ jobs[k].found /\ Finished(k)) =>
                JobOps(k) = << <<"delete", jobs[k].hadId>>, <<"create", folder_id>> >>

\* C2: a failure while processing one file of a directory batch never
\* prevents upload_all from processing every remaining file: when the run
\* has ended, upload_zip has been entered for every file of the batch.
C2_BatchContinuesAfterFailure ==
    (script = "up_jwt" /\ pc = "exit" /\ is_directory /\ zips # <<>>) =>
        Len(jobs) = Len(zips)

C5_AbsentFileIsCreatedOnce ==
    script = "up_jwt" =>
        \A k \in DOMAIN jobs :
            (~jobs[k].had /\ Finished(k)) =>
                JobOps(k) = << <<"create", TargetId>> >>

C5_Witness ==
    /\ script = "up_jwt" /\ mode = "update" /\ pc = "exit"
    /\ Len(jobs) = 2
    /\ \A k \in DOMAIN jobs : ~jobs[k].had /\ jobs[k].status = "returned"
    /\ \E i \in DOMAIN remote0 : remote0[i].name = jobs[1].name

\* the directory batch of a re-run: every *.zip child exists remotely
AllUploaded ==
    /\ script = "up_jwt" /\ mode = "upload"
    /\ is_directory /\ glob_zip # {}
    /\ \A n \in glob_zip : FileNamed(remote0, TargetId, n) # NoMatch

Listing == Children(remote0, TargetId)

\* claim side: type `file` and lower-cased name ending in an allowed suffix
Matches(item) ==
    /\ item.type = "file"
    /\ \/ endswith(lower(item.name), DotZip)
       \/ endswith(lower(item.name), DotIsx)

MatchingIds == LET hit(it) == Matches(it)
                   sel == SelectSeq(Listing, hit)
               IN  [i \in DOMAIN sel |-> sel[i].id]

Transfers == LET isDl(c) == c.op = "download"
                 sel == SelectSeq(calls, isDl)
             IN  [i \in DOMAIN sel |-> sel[i].target]

\* C7: once the listing has been fetched the run always ends normally;
\* it has then attempted exactly one transfer per matching item, in
\* listing order, none for the others, and the printed success count is
\* the number M of matching items minus the number of failed transfers.
C7_DownloadsExactlyTheMatches ==
    (script \in Downloaders /\ pc = "exit" /\ calls # <<>> /\ calls[1].ok) =>
        /\ exitCode = 0
        /\ Transfers = MatchingIds
        /\ printed = Len(MatchingIds) - failed

C7_Witness ==
    /\ script \in Downloaders /\ pc = "exit" /\ exitCode = 0
    /\ Len(Listing) = 2
    /\ Listing[1].name = UpperZip /\ Listing[1].type = "file"
    /\ Listing[2].name = CIsx /\ Listing[2].type = "file"
    /\ Len(Transfers) = 2
    /\ ~calls[2].ok
    /\ failed = 1 /\ printed = 1

(***************************************************************************)
(* Claims about box_uploader_token.py                                      *)
(***************************************************************************)
HandledPaths == {uploads[i].path : i \in DOMAIN uploads}

\* the directories whose remote folder could not be resolved or created
FailedDirs ==
    {uploads[i].path : i \in {j \in DOMAIN uploads :
                                uploads[j].kind = "dir" /\ ~uploads[j].ok}}

Ancestors(p) == {SubSeq(p, 1, k) : k \in 1..(Len(p) - 1)}

\* C8: a failed file upload, subfolder creation or subfolder existence
\* check is logged and the batch continues: when the run has ended, every
\* local entry that does not lie inside a subfolder that failed has been
\* processed.
C8_FailuresArePerItem ==
    (script = "up_tok" /\ pc = "exit" /\ folder_id # NoMatch /\ local.kind = "dir") =>
        \A p \in local.nodes :
            (Ancestors(p) \cap FailedDirs = {}) => p \in HandledPaths

NoRemoteFailure == \A i \in DOMAIN calls : calls[i].ok

RemoteFoldersNamed(n, parent) ==
    {i \in DOMAIN remote :
        remote[i].type = "folder" /\ remote[i].name = n /\ remote[i].parent = parent}

\* the id of the remote folder that mirrors the local directory `path`
RECURSIVE RemoteOf(_)
RemoteOf(path) ==
    IF path = <<>> THEN TargetId
    ELSE LET hits == RemoteFoldersNamed(Last(path), RemoteOf(Front(path)))
         IN  IF hits = {} THEN NoMatch ELSE remote[CHOOSE i \in hits : TRUE].id

LocalFiles ==
    IF local.kind = "file" THEN {<<local.name>>}
    ELSE local.nodes \ (local.dirs \cup local.others)

FileUploads(n, parent) ==
    {i \in DOMAIN calls :
        calls[i].op = "create" /\ calls[i].name = n /\ calls[i].target = parent}

NewRemoteFiles(n, parent) ==
    {i \in DOMAIN remote :
        /\ remote[i].type = "file" /\ remote[i].name = n /\ remote[i].parent = parent
        /\ \A j \in DOMAIN remote0 : remote0[j].id # remote[i].id}

\* C9: when no remote operation fails the run ends normally and has
\* mirrored the local tree: every local subdirectory has exactly one
\* same-named remote folder inside its parent's remote folder, and every
\* local file was uploaded exactly once, into the remote folder of its
\* parent directory, and no other file was uploaded.
C9_MirrorsLocalTree ==
    (script = "up_tok" /\ pc = "exit" /\ folder_id # NoMatch /\ NoRemoteFailure) =>
        /\ exitCode = 0
        /\ \A d \in local.dirs :
               Cardinality(RemoteFoldersNamed(Last(d), RemoteOf(Front(d)))) = 1
        /\ \A f \in LocalFiles :
               /\ Cardinality(FileUploads(Last(f), RemoteOf(Front(f)))) = 1
               /\ Cardinality(NewRemoteFiles(Last(f), RemoteOf(Front(f)))) = 1
        /\ Cardinality(OpsIssued({"create"})) = Cardinality(LocalFiles)

C9_Witness ==
    /\ script = "up_tok" /\ pc = "exit" /\ exitCode = 0 /\ NoRemoteFailure
    /\ remote0 = <<>>
    /\ local.nodes = {<<AZip>>, <<Sub>>, <<Sub, AZip>>}
    /\ local.dirs = {<<Sub>>} /\ local.others = {}
    /\ Len(remote) = 3

(***************************************************************************)
(* Claims about main of the environment-configured scripts                 *)
(***************************************************************************)
MissingOrEmpty(v) == ~v.set \/ Len(v.val) = 0

\* C10: in the three environment-configured scripts, when a required
\* variable is missing or empty the process goes from main straight to
\* exit status 1: the constructor is never entered and no network call is
\* ever issued, whatever the other variables hold.
C10_MissingEnvExitsBeforeNetwork ==
    (/\ script \in EnvScripts
     /\ \/ MissingOrEmpty(cfg.cred)
        \/ MissingOrEmpty(cfg.url)
        \/ MissingOrEmpty(cfg.path)) =>
        /\ calls = <<>>
        /\ folder_id = NoMatch
        /\ pc \in {"main", "exit"}
        /\ pc = "main" => ENABLED main
        /\ pc = "exit" => exitCode = 1

C10_Witness ==
    /\ script = "up_tok" /\ pc = "exit" /\ exitCode = 1
    /\ cfg.cred = Val(<<"c">>) /\ cfg.url = Val(UrlGood)
    /\ cfg.path = Val(<<>>)
    /\ calls = <<>>

(***************************************************************************)
(* Claims about the folder URL                                             *)
(***************************************************************************)
\* claim side: the URL contains "/folder/" directly followed by a digit
HasFolderDigits(u) ==
    \E i \in 1..(Len(u) - 8) :
        /\ u[i] = "/" /\ u[i + 1] = "f" /\ u[i + 2] = "o" /\ u[i + 3] = "l"
        /\ u[i + 4] = "d" /\ u[i + 5] = "e" /\ u[i + 6] = "r" /\ u[i + 7] = "/"
        /\ u[i + 8] \in {"0", "1", "2", "3", "4", "5", "6", "7", "8", "9"}

\* C11: in all four scripts a folder URL without /folder/<digits> is
\* fatal: no folder id is ever extracted, the run never gets past the
\* constructor, it can only end with exit status 1, and no network call is
\* issued at any point of the run.
C11_BadUrlIsFatalBeforeNetwork ==
    ~HasFolderDigits(cfg.url.val) =>
        /\ calls = <<>>
        /\ folder_id = NoMatch
        /\ pc \in {"main", "init", "exit"}
        /\ pc # "exit" => ENABLED Next
        /\ pc = "exit" => exitCode = 1

C11_Witness ==
    /\ script = "down_tok" /\ pc = "exit" /\ exitCode = 1
    /\ cfg.cred = Val(<<"c">>) /\ cfg.path = Val(<<"d">>)
    /\ cfg.url = Val(UrlUpper)
    /\ local.kind = "dir"
    /\ calls = <<>>

(***************************************************************************)
(* Claims about _create_folder                                             *)
(***************************************************************************)
DirEntries == {i \in DOMAIN uploads : uploads[i].kind = "dir"}

\* the create-folder calls issued for the directory entry number i
FolderCreates(i) ==
    {k \in DOMAIN calls :
        /\ k > uploads[i].at
        /\ (i < Len(uploads) => k < uploads[i + 1].at)
        /\ calls[k].op = "create_folder"}

\* the ghost record of the directory the entry `p` lies in
DirRecord(p) ==
    uploads[CHOOSE i \in DirEntries : uploads[i].path = Front(p)]

\* the entries of a resolved subdirectory are handled with its id as parent
ChildrenUseResolvedId ==
    \A j \in DOMAIN uploads :
        Len(uploads[j].path) > 1 =>
            /\ DirRecord(uploads[j].path).resolved # NoMatch
            /\ uploads[j].parent = DirRecord(uploads[j].path).resolved

\* the id of the folder that mirrors the local directory `path` in r
RECURSIVE FolderAt(_, _)
FolderAt(r, path) ==
    IF path = <<>> THEN TargetId
    ELSE LET up == FolderAt(r, Front(path))
         IN  IF up = NoMatch THEN NoMatch ELSE FolderNamed(r, up, Last(path))

AlreadyMirrored ==
    /\ script = "up_tok" /\ local.kind = "dir" /\ local.dirs # {}
    /\ \A d \in local.dirs : FolderAt(remote0, d) # NoMatch

Count(ev, k) == Cardinality({i \in 1..k : io[i] = ev})

\* handles open, calls in flight, after the first k events
OpenAfter(k) == Count("open", k) - Count("close", k)
InFlightAfter(k) == Count("send", k) - Count("recv", k)

\* C13: at every moment of a run of any of the four scripts at most one
\* local file handle is open and at most one network call is in flight;
\* a handle opened for an item is closed on every way out of the item
\* (success or exception), so no handle is open and no call is in flight
\* when the next item starts or when the run has ended; every remote call
\* of the log is one of these blocking calls, and every create or
\* upload-new-version call is issued with the item's handle open.
C13_OneHandleOneCall ==
    /\ \A k \in 0..Len(io) :
           /\ OpenAfter(k) \in {0, 1}
           /\ InFlightAfter(k) \in {0, 1}
    /\ OpenAfter(Len(io)) = 0
    /\ InFlightAfter(Len(io)) = 0
    /\ Count("send", Len(io)) = Len(calls)
    /\ \A n \in DOMAIN calls :
           LET k == CHOOSE j \in DOMAIN io : io[j] = "send" /\ Count("send", j) = n
           IN  OpenAfter(k) = IF calls[n].op \in {"create", "version"} THEN 1 ELSE 0

C13_Witness ==
    /\ script = "up_tok" /\ pc = "exit" /\ exitCode = 0
    /\ Len(calls) = 2
    /\ calls[1].op = "create" /\ ~calls[1].ok
    /\ calls[2].op = "create" /\ calls[2].ok
    /\ io = <<"open", "send", "recv", "close", "open", "send", "recv", "close">>

(***************************************************************************)
(* Claims about the JWT uploader's existence check and its empty batches   *)
(***************************************************************************)
\* the upload_zip invocations whose existence-check listing raised
ListingFailed == {k \in DOMAIN jobs : ~calls[jobs[k].from].ok}

\* C14: in the JWT uploader, when the existence-check listing call fails,
\* find_file swallows the error and reports the file as not existing, and
\* upload_zip then issues exactly one create call into the target folder
\* and no delete or upload-new-version call, in every mode and whether or
\* not a file of that name exists in the target folder; upload_zip returns
\* normally.
C14_FailedListingMeansCreate ==
    script = "up_jwt" =>
        \A k \in ListingFailed :
            /\ ~jobs[k].found
            /\ (k = Len(jobs) /\ pc = "upload_zip") => (~exists /\ file_id = NoMatch)
            /\ jobs[k].status \in {"running", "returned"}
            /\ jobs[k].status = "running" => (JobOps(k) = <<>> /\ ENABLED upload_zip_new)
            /\ jobs[k].status = "returned" => JobOps(k) = << <<"create", TargetId>> >>

C14_Witness ==
    /\ script = "up_jwt" /\ mode = "upload" /\ pc = "exit" /\ exitCode = 0
    /\ Len(jobs) = 2
    /\ ListingFailed = {1, 2}
    /\ jobs[1].had /\ ~jobs[2].had
    /\ \A k \in DOMAIN jobs : JobOps(k) = << <<"create", TargetId>> >>

\* the local path is a regular file whose name does not end in ".zip", or
\* a directory none of whose immediate children is named *.zip
NothingToUpload ==
    \/ /\ local.kind = "file"
       /\ ~(Len(local.name) >= 4 /\ SubSeq(local.name, Len(local.name) - 3, Len(local.name))
                                       = <<".", "z", "i", "p">>)
    \/ /\ local.kind = "dir"
       /\ \A p \in local.nodes :
              Len(p) = 1 =>
                  ~(Len(p[1]) >= 4 /\ SubSeq(p[1], Len(p[1]) - 3, Len(p[1]))
                                          = <<".", "z", "i", "p">>)

\* C15: in the JWT uploader, when the local path is a regular file whose
\* name does not end in ".zip", or a directory with no immediate *.zip
\* child, no remote call is issued at all, upload_zip is never entered,
\* and once the constructor has succeeded upload_all returns and the run
\* ends with exit status 0.
C15_NothingToUploadNoCall ==
    (script = "up_jwt" /\ NothingToUpload) =>
        /\ calls = <<>>
        /\ jobs = <<>>
        /\ \A i \in DOMAIN io : io[i] \notin {"send", "recv"}
        /\ pc \in {"main", "upload_all", "exit"}
        /\ pc # "exit" => ENABLED NextUpJwt
        /\ (pc = "exit" /\ folder_id # NoMatch) => exitCode = 0
        /\ (pc = "exit" /\ folder_id = NoMatch) => exitCode = 1

C15_Witness ==
    /\ script = "up_jwt" /\ pc = "exit" /\ exitCode = 0
    /\ local = LocalFile(UpperZip)
    /\ folder_id = TargetId
    /\ calls = <<>>

C15_WitnessDir ==
    /\ script = "up_jwt" /\ pc = "exit" /\ exitCode = 0
    /\ local.kind = "dir" /\ local.nodes = {<<DTxt>>}
    /\ folder_id = TargetId
    /\ calls = <<>>

====
